---- MODULE Spec2Model ----
(***************************************************************************)
(* Model of src/app.py: a Streamlit script that reads an uploaded EEG      *)
(* file, integrates its Welch spectrum into five frequency bands, derives  *)
(* two ratios with heuristic flags, and assembles a report record.         *)
(*                                                                         *)
(* Units.  Frequencies are counted in half Hertz (0.5 Hz = 1), so the band *)
(* edges 0.5, 4, 8, 12, 30, 45 Hz are 1, 8, 16, 24, 60, 90.  Powers are    *)
(* integers: a band power P stands for P power units, and np.trapz's       *)
(* factor (x[i+1]-x[i]) * (y[i]+y[i+1]) / 2 with x in Hz is                *)
(* (dF/2) * (y[i]+y[i+1]) / 2, i.e. dF * (y[i]+y[i+1]) quarter units: the  *)
(* power unit is a quarter of (psd unit * Hz).  The arithmetic is exact;   *)
(* the rounding of IEEE doubles is not modelled.  Ratios are kept as pairs *)
(* <<numerator, denominator>> with a positive denominator.                 *)
(*                                                                         *)
(* mne (psd_welch, read_raw_edf, RawArray) is a library, not code of this  *)
(* repository: a decoded recording is identified with the averaged Welch   *)
(* spectrum psd_welch returns for it (ascending bins inside [0.5, 45] Hz,  *)
(* non-negative powers), and a failure of the library is an outcome of the *)
(* uploaded file.                                                          *)
(***************************************************************************)
EXTENDS Integers, Sequences, FiniteSets, TLC

VARIABLES
  uploaded,        \* st.file_uploader's value (widget state)
  sfreq_csv,       \* the CSV sampling-rate number_input, None when not rendered
  phq_q1, phq_q2,  \* the two PHQ-2 selectboxes
  ad8_answers,     \* the eight AD8 selectboxes
  pressed,         \* whether this run was triggered by "Create Reports"
  raw,             \* script variable raw
  eeg_info,        \* script variable eeg_info
  band_powers,     \* script variable band_powers (an ordered dict)
  ratios,          \* script variable ratios (a dict)
  band_chart_buf,  \* script variable band_chart_buf
  masks,           \* the boolean mask of each iteration of the band loop
  messages,        \* st.error / st.warning texts shown by this run
  results,         \* the results record of this run, {} when none was built
  downloads,       \* file names of the download buttons shown by this run
  exception,       \* the exception that ended this run, "none" otherwise
  earlier,         \* history: the outcome of one earlier run
  stage            \* "ui", or "input"/"done" for a single call of a function

vars == <<uploaded, sfreq_csv, phq_q1, phq_q2, ad8_answers, pressed, raw,
          eeg_info, band_powers, ratios, band_chart_buf, masks, messages,
          results, downloads, exception, earlier, stage>>

-----------------------------------------------------------------------------
(* Bounds of the model *)

\* the longest spectrum (number of frequency bins) that is enumerated
MaxBins == 4
\* the largest power-spectral-density value of a bin
MaxPsd == 2
\* band powers 0..MaxPower are enumerated as inputs of risk_from_ratios
MaxPower == 10
\* how many of the eight AD8 selectboxes the user changes
MaxAd8Touched == 2

-----------------------------------------------------------------------------
(* Python values *)

\* None, where a number is expected
NoneNum == -1
\* None, where a string is expected
NoneStr == "None"
\* the empty dict {}
EmptyDict == [k \in {} |-> 0]
\* uploaded is None
NoFile == [name |-> NoneStr]
\* raw = None
NoRaw == [kind |-> NoneStr]

\* F applied to the value of v, which is evaluated once (a local variable)
Let(v, F(_)) == CHOOSE out \in {F(x) : x \in {v}} : TRUE

\* d.get(key, default) on an ordered dict kept as a sequence of items
Get(d, key, default) ==
  IF \E i \in 1..Len(d) : d[i].band = key
  THEN (CHOOSE it \in {d[i] : i \in 1..Len(d)} : it.band = key).power
  ELSE default

\* d[key] = value on an ordered dict: a new key is appended, an old one keeps its place
SetItem(d, key, value) ==
  IF \E i \in 1..Len(d) : d[i].band = key
  THEN [i \in 1..Len(d) |-> IF d[i].band = key THEN [band |-> key, power |-> value] ELSE d[i]]
  ELSE Append(d, [band |-> key, power |-> value])

-----------------------------------------------------------------------------
(* bandpowers_from_raw *)

BANDS == <<
  [name |-> "Delta (0.5-4 Hz)", lo |-> 1,  hi |-> 8],
  [name |-> "Theta (4-8 Hz)",   lo |-> 8,  hi |-> 16],
  [name |-> "Alpha (8-12 Hz)",  lo |-> 16, hi |-> 24],
  [name |-> "Beta (12-30 Hz)",  lo |-> 24, hi |-> 60],
  [name |-> "Gamma (30-45 Hz)", lo |-> 60, hi |-> 90] >>

\* a mask that also takes the bin at the high edge
MaskClosedHigh(freqs, fmin, fmax) ==
  [i \in 1..Len(freqs) |-> freqs[i] >= fmin /\ freqs[i] <= fmax]

\* a mask that forgets the high edge
MaskNoUpper(freqs, fmin, fmax) ==
  [i \in 1..Len(freqs) |-> freqs[i] >= fmin]

\* mask = (freqs >= fmin) & (freqs < fmax)
Mask(freqs, fmin, fmax) ==
  [i \in 1..Len(freqs) |-> freqs[i] >= fmin /\ freqs[i] < fmax]

\* np.any(mask)
np_any(mask) == \E i \in 1..Len(mask) : mask[i]

\* arr[mask]: the elements of arr where mask is True, in order
Index(arr, mask) ==
  LET F[i \in 0..Len(arr)] ==
        IF i = 0 THEN <<>>
        ELSE IF mask[i] THEN Append(F[i-1], arr[i]) ELSE F[i-1]
  IN F[Len(arr)]

\* np.trapz(y, x), in quarter units (see Units); 0 for fewer than two points
Trapz(y, x) ==
  LET F[i \in 0..Len(y)] ==
        IF i <= 1 THEN 0
        ELSE F[i-1] + (x[i] - x[i-1]) * (y[i-1] + y[i])
  IN F[Len(y)]

\* the body of the band loop for one band: lines 63-68
BandIntegral(psd_mean, freqs, fmin, fmax) ==
  Let(Mask(freqs, fmin, fmax), LAMBDA mask :
    IF ~np_any(mask) THEN 0
    ELSE Let(<<Index(psd_mean, mask), Index(freqs, mask)>>, LAMBDA yx :
           Trapz(yx[1], yx[2])))

\* a band loop that skips a band without bins instead of storing 0.0
BandLoopSkipEmpty(psd_mean, freqs) ==
  LET F[k \in 0..Len(BANDS)] ==
        IF k = 0 THEN <<>>
        ELSE IF ~np_any(Mask(freqs, BANDS[k].lo, BANDS[k].hi)) THEN F[k-1]
        ELSE Let(F[k-1], LAMBDA d :
               SetItem(d, BANDS[k].name,
                       BandIntegral(psd_mean, freqs, BANDS[k].lo, BANDS[k].hi)))
  IN F[Len(BANDS)]

\* band_powers = {}; for band_name, (fmin, fmax) in BANDS.items(): ...
BandLoop(psd_mean, freqs) ==
  LET F[k \in 0..Len(BANDS)] ==
        IF k = 0 THEN <<>>
        ELSE Let(F[k-1], LAMBDA d :
               SetItem(d, BANDS[k].name,
                       BandIntegral(psd_mean, freqs, BANDS[k].lo, BANDS[k].hi)))
  IN F[Len(BANDS)]

\* the masks the band loop computes, one per iteration
BandMasks(freqs) ==
  [k \in 1..Len(BANDS) |-> Mask(freqs, BANDS[k].lo, BANDS[k].hi)]

\* bandpowers_from_raw(raw): (band_powers, sfreq)
bandpowers_from_raw(r) ==
  [band_powers |-> BandLoop(r.psd_mean, r.freqs), sfreq |-> r.sfreq]

-----------------------------------------------------------------------------
(* risk_from_ratios *)

\* the default of band_powers.get("Alpha (8-12 Hz)", 1e-9): 1e-9 is 2 power units
Eps == 2

\* round(x, 3) of the ratio x = q[1] / q[2], in thousandths; a tie goes to the even
\* neighbour (Python rounds the double nearest to x, which a tie of the exact
\* quotient may fall on either side of)
Round3(q) ==
  LET n == q[1] * 1000
      fl == n \div q[2]
      r == n % q[2]
  IN IF 2 * r > q[2] THEN fl + 1
     ELSE IF 2 * r < q[2] THEN fl
     ELSE IF fl % 2 = 0 THEN fl ELSE fl + 1

\* theta_alpha = float(theta / alpha) if alpha > 0 else 0.0 (and beta_alpha alike)
RatioOrZero(x, alpha) == IF alpha > 0 THEN <<x, alpha>> ELSE <<0, 1>>

\* line 106
theta_alpha(bp) ==
  RatioOrZero(Get(bp, "Theta (4-8 Hz)", 0), Get(bp, "Alpha (8-12 Hz)", Eps))

\* line 107
beta_alpha(bp) ==
  RatioOrZero(Get(bp, "Beta (12-30 Hz)", 0), Get(bp, "Alpha (8-12 Hz)", Eps))

\* a depression flag that includes the threshold itself
dep_flag_ge(ta) == IF ta[1] * 10 >= 8 * ta[2] THEN "Higher" ELSE "Lower"

\* a depression flag that compares with the other flag's threshold
dep_flag_half(ta) == IF ta[1] * 10 > 5 * ta[2] THEN "Higher" ELSE "Lower"

\* dep_flag = "Higher" if theta_alpha > 0.8 else "Lower"
dep_flag(ta) == IF ta[1] * 10 > 8 * ta[2] THEN "Higher" ELSE "Lower"

\* ad_flag = "Possible concern" if beta_alpha < 0.5 else "Normal"
ad_flag(ba) == IF ba[1] * 10 < 5 * ba[2] THEN "Possible concern" ELSE "Normal"

\* risk_from_ratios(band_powers): the returned dict
risk_from_ratios(bp) ==
  ("Theta/Alpha" :> Round3(theta_alpha(bp)))
  @@ ("Beta/Alpha" :> Round3(beta_alpha(bp)))
  @@ ("Depression (EEG heuristic)" :> dep_flag(theta_alpha(bp)))
  @@ ("Alzheimer (EEG heuristic)" :> ad_flag(beta_alpha(bp)))

-----------------------------------------------------------------------------
(* The uploaded files *)

\* values of the CSV sampling-rate input (min_value=50 ... max_value=2000, default 256)
SfreqChoices == {50, 256}
\* value=256
SfreqDefault == 256

\* An uploaded file: its name, its size, what the library does with it
\* ("ok", "read_error": the reader raises, "psd_error": psd_welch raises, as for
\* a recording shorter than n_fft samples), the sampling rate of an EDF header,
\* and the averaged Welch spectrum per sampling rate.
Files == {
  [name |-> "rest.edf", size |-> 3, outcome |-> "ok", sfreq |-> 256,
   welch |-> (256 :> [freqs |-> <<1, 5, 8, 12, 16, 20, 24, 40, 60, 90>>,
                      psd_mean |-> <<4, 4, 3, 5, 2, 2, 1, 1, 0, 0>>])],
  [name |-> "broken.edf", size |-> 1, outcome |-> "read_error", sfreq |-> 256,
   welch |-> EmptyDict],
  [name |-> "eyes.csv", size |-> 2, outcome |-> "ok", sfreq |-> NoneNum,
   welch |-> (50 :> [freqs |-> <<1, 5, 10, 15, 20, 25, 30, 35, 40, 45, 50>>,
                     psd_mean |-> <<2, 2, 1, 3, 3, 1, 0, 1, 0, 0, 1>>])
          @@ (256 :> [freqs |-> <<8, 16, 24, 60>>,
                      psd_mean |-> <<1, 0, 0, 2>>])],
  [name |-> "short.csv", size |-> 1, outcome |-> "psd_error", sfreq |-> NoneNum,
   welch |-> EmptyDict] }

\* uploaded.name.lower().endswith(".edf")
IsEdf(up) == up.name \in {"rest.edf", "broken.edf"}

-----------------------------------------------------------------------------
(* 1) EEG Upload & Processing: lines 195-237 *)

\* a band_powers that survives from the previous run
CachedBandPowers == band_powers

\* band_powers = {} at the start of every run
InitBandPowers == <<>>

\* band_chart_buf = None
NoChart == [png |-> NoneStr]

\* make_band_bar_chart(band_powers).getvalue(): the chart of these band powers
make_band_bar_chart(bp) == [png |-> "bar chart", bars |-> bp]

\* The try block of either branch: decode, then bandpowers_from_raw. The result
\* names the exception's message, if one was raised, and what was assigned
\* before it.
TryDecode(up, sf, errmsg) ==
  CASE up.outcome = "read_error" ->
         [raw |-> NoRaw, band_powers |-> InitBandPowers, sfreq_hz |-> NoneNum,
          masks |-> <<>>, messages |-> {errmsg}]
    [] up.outcome = "psd_error" ->
         [raw |-> [kind |-> "shorter than n_fft", sfreq |-> sf],
          band_powers |-> InitBandPowers, sfreq_hz |-> NoneNum,
          masks |-> <<>>, messages |-> {errmsg}]
    [] OTHER ->
         Let([freqs |-> up.welch[sf].freqs,
              psd_mean |-> up.welch[sf].psd_mean, sfreq |-> sf], LAMBDA r :
           Let(bandpowers_from_raw(r), LAMBDA out :
             [raw |-> r, band_powers |-> out.band_powers, sfreq_hz |-> out.sfreq,
              masks |-> BandMasks(r.freqs), messages |-> {}]))

\* the value of the CSV sampling-rate widget in a run that renders it: the new
\* value when the user changed it, else the value it kept, else its default
SfreqWidget(new) ==
  IF new # NoneNum THEN new
  ELSE IF sfreq_csv # NoneNum THEN sfreq_csv
  ELSE SfreqDefault

\* lines 195-237 for the file up; newsf is the user's new CSV rate, if any
EegStage(up, newsf) ==
  IF up = NoFile
  THEN [sfreq_csv |-> NoneNum, raw |-> NoRaw,
        eeg_info |-> [filename |-> NoneStr, filesize_mb |-> NoneNum, sfreq_hz |-> NoneNum],
        band_powers |-> InitBandPowers, ratios |-> EmptyDict,
        band_chart_buf |-> NoChart, masks |-> <<>>, messages |-> {}]
  ELSE
    LET widget == IF IsEdf(up) THEN NoneNum ELSE SfreqWidget(newsf)
    IN Let(IF IsEdf(up) THEN TryDecode(up, up.sfreq, "Could not read EDF")
           ELSE TryDecode(up, widget, "Could not parse CSV"), LAMBDA t :
         LET shown == Len(t.band_powers) > 0
         IN [sfreq_csv |-> widget, raw |-> t.raw,
             eeg_info |-> [filename |-> up.name, filesize_mb |-> up.size,
                           sfreq_hz |-> t.sfreq_hz],
             band_powers |-> t.band_powers,
             ratios |-> IF shown THEN risk_from_ratios(t.band_powers) ELSE EmptyDict,
             band_chart_buf |-> IF shown THEN make_band_bar_chart(t.band_powers)
                                ELSE NoChart,
             masks |-> t.masks, messages |-> t.messages])

-----------------------------------------------------------------------------
(* 2) PHQ-2 and 3) AD8: lines 244-277 *)

phq_options == <<"0 = Not at all", "1 = Several days",
                 "2 = More than half the days", "3 = Nearly every day">>

\* {opt: int(opt.split("=")[0].strip())}: the number each option starts with
phq_map == ("0 = Not at all" :> 0) @@ ("1 = Several days" :> 1)
           @@ ("2 = More than half the days" :> 2) @@ ("3 = Nearly every day" :> 3)

phq_score(q1, q2) == phq_map[q1] + phq_map[q2]

phq_risk(q1, q2) ==
  IF phq_score(q1, q2) >= 3 THEN "High (>=3 -> further eval recommended)" ELSE "Low"

\* len(ad8_items)
NumAd8Items == 8

\* sum(1 for a in ad8_answers if a == "Yes")
ad8_score(ans) == Cardinality({i \in 1..Len(ans) : ans[i] = "Yes"})

ad8_risk(ans) ==
  IF ad8_score(ans) >= 2 THEN "Possible concern (>=2 suggests cognitive impairment)"
  ELSE "Low"

-----------------------------------------------------------------------------
(* 4) Generate Reports: lines 283-320 *)

\* "Create Reports" with no test of the upload
NoUploadTest(up) == TRUE

\* the else branch of "if uploaded is None"
HasUpload(up) == up # NoFile

\* the results dict (its timestamp, the wall clock's, is left out)
Results(eeg, q1, q2, ans) ==
  [EEG |-> [filename |-> eeg.eeg_info.filename,
            filesize_mb |-> eeg.eeg_info.filesize_mb,
            sfreq_hz |-> eeg.eeg_info.sfreq_hz,
            bands |-> eeg.band_powers,
            ratios |-> eeg.ratios],
   Depression |-> [phq2 |-> [Q1 |-> q1, Q2 |-> q2],
                   score |-> phq_score(q1, q2), risk |-> phq_risk(q1, q2)],
   Alzheimer |-> [ad8_answers |-> ans, score |-> ad8_score(ans), risk |-> ad8_risk(ans)],
   combined_note |-> "Demo synthesis"]

\* generate_pdf(results, band_plot_png): results["EEG"]["ratios"]["Theta/Alpha"]
\* and ["Beta/Alpha"] are read unguarded and raise KeyError on an empty ratios
generate_pdf_raises(res) ==
  ~({"Theta/Alpha", "Beta/Alpha"} \subseteq DOMAIN res.EEG.ratios)

\* the body of "if st.button(...)": what the run shows when the button was pressed
CreateReports(up, eeg, q1, q2, ans) ==
  IF ~HasUpload(up)
  THEN [results |-> EmptyDict, downloads |-> {}, exception |-> "none",
        messages |-> {"Please upload an EEG file first."}]
  ELSE LET res == Results(eeg, q1, q2, ans)
       IN IF generate_pdf_raises(res)
          THEN [results |-> res, downloads |-> {"early_risk_report.json"},
                exception |-> "KeyError", messages |-> {}]
          ELSE [results |-> res,
                downloads |-> {"early_risk_report.json", "early_risk_report.pdf"},
                exception |-> "none", messages |-> {}]

\* a run in which the button was not pressed
NoReports ==
  [results |-> EmptyDict, downloads |-> {}, exception |-> "none", messages |-> {}]

-----------------------------------------------------------------------------
(* One run of the script, top to bottom, after a UI event *)

\* what is kept of a run for the history variable
Outcome ==
  [taken |-> TRUE, uploaded |-> uploaded, sfreq_csv |-> sfreq_csv,
   band_powers |-> band_powers, ratios |-> ratios, between |-> FALSE]

NoOutcome == [taken |-> FALSE]

\* the history after a run on (up, sf): either the outcome of the run before this
\* one is recorded, or the recorded one is kept, noting whether a run on a
\* different upload or rate came in between
History(up, sf) ==
  {Outcome} \cup
  (IF earlier.taken
   THEN {[earlier EXCEPT !.between =
            @ \/ up # earlier.uploaded \/ sf # earlier.sfreq_csv]}
   ELSE {earlier})

Rerun(up, newsf, q1, q2, ans, button) ==
  \E eeg \in {EegStage(up, newsf)} :
  \E rep \in {IF button THEN CreateReports(up, eeg, q1, q2, ans) ELSE NoReports} :
     /\ stage = "ui"
     /\ uploaded' = up
     /\ sfreq_csv' = eeg.sfreq_csv
     /\ phq_q1' = q1
     /\ phq_q2' = q2
     /\ ad8_answers' = ans
     /\ pressed' = button
     /\ raw' = eeg.raw
     /\ eeg_info' = eeg.eeg_info
     /\ band_powers' = eeg.band_powers
     /\ ratios' = eeg.ratios
     /\ band_chart_buf' = eeg.band_chart_buf
     /\ masks' = eeg.masks
     /\ messages' = eeg.messages \cup rep.messages
     /\ results' = rep.results
     /\ downloads' = rep.downloads
     /\ exception' = rep.exception
     /\ earlier' \in History(up, eeg.sfreq_csv)
     /\ UNCHANGED stage

\* the user uploads a file
Upload(f) ==
  /\ f # uploaded
  /\ Rerun(f, NoneNum, phq_q1, phq_q2, ad8_answers, FALSE)

\* the user removes the uploaded file
RemoveFile ==
  /\ uploaded # NoFile
  /\ Rerun(NoFile, NoneNum, phq_q1, phq_q2, ad8_answers, FALSE)

\* the user changes the CSV sampling rate (the widget is there for a CSV upload)
SetSfreqCsv(v) ==
  /\ uploaded # NoFile
  /\ ~IsEdf(uploaded)
  /\ v # sfreq_csv
  /\ Rerun(uploaded, v, phq_q1, phq_q2, ad8_answers, FALSE)

SelectPhq1(opt) ==
  /\ opt # phq_q1
  /\ Rerun(uploaded, NoneNum, opt, phq_q2, ad8_answers, FALSE)

SelectPhq2(opt) ==
  /\ opt # phq_q2
  /\ Rerun(uploaded, NoneNum, phq_q1, opt, ad8_answers, FALSE)

SelectAd8(i, a) ==
  /\ a # ad8_answers[i]
  /\ Rerun(uploaded, NoneNum, phq_q1, phq_q2, [ad8_answers EXCEPT ![i] = a], FALSE)

\* the user presses "Create Reports"
PressCreateReports ==
  Rerun(uploaded, NoneNum, phq_q1, phq_q2, ad8_answers, TRUE)

\* every widget at its default
WidgetDefaults ==
  /\ uploaded = NoFile
  /\ sfreq_csv = NoneNum
  /\ phq_q1 = phq_options[1]
  /\ phq_q2 = phq_options[1]
  /\ ad8_answers = [i \in 1..NumAd8Items |-> "No"]
  /\ pressed = FALSE

\* nothing shown, no report
NothingShown ==
  /\ band_chart_buf = NoChart
  /\ messages = {}
  /\ results = EmptyDict
  /\ downloads = {}
  /\ exception = "none"
  /\ earlier = NoOutcome

\* the first run of a session: nothing uploaded, every widget at its default
Init ==
  /\ stage = "ui"
  /\ WidgetDefaults
  /\ NothingShown
  /\ raw = NoRaw
  /\ eeg_info = [filename |-> NoneStr, filesize_mb |-> NoneNum, sfreq_hz |-> NoneNum]
  /\ band_powers = <<>>
  /\ ratios = EmptyDict
  /\ masks = <<>>

Next ==
  \/ \E f \in Files : Upload(f)
  \/ RemoveFile
  \/ \E v \in SfreqChoices : SetSfreqCsv(v)
  \/ \E opt \in {phq_options[i] : i \in 1..Len(phq_options)} : SelectPhq1(opt)
  \/ \E opt \in {phq_options[i] : i \in 1..Len(phq_options)} : SelectPhq2(opt)
  \/ \E i \in 1..MaxAd8Touched : \E a \in {"No", "Yes"} : SelectAd8(i, a)
  \/ PressCreateReports

Spec == Init /\ [][Next]_vars

-----------------------------------------------------------------------------
(* One call of bandpowers_from_raw on an arbitrary spectrum *)

\* frequencies (in half Hertz) a bin may have: every band edge, one frequency
\* inside each band, all inside psd_welch's range fmin=0.5 .. fmax=45 Hz
FreqGrid == {1, 5, 8, 12, 16, 20, 24, 40, 60, 75, 90}

\* the elements of S in ascending order
SortedSeq(S) ==
  LET F[k \in 0..Cardinality(S)] ==
        IF k = 0 THEN <<>>
        ELSE Append(F[k-1], CHOOSE x \in S : Cardinality({y \in S : y < x}) = k - 1)
  IN F[Cardinality(S)]

InitBands ==
  /\ stage = "input"
  /\ WidgetDefaults
  /\ NothingShown
  /\ \E S \in {T \in SUBSET FreqGrid : Cardinality(T) \in 1..MaxBins} :
       \E p \in [1..Cardinality(S) -> 0..MaxPsd] :
         raw = [freqs |-> SortedSeq(S), psd_mean |-> p, sfreq |-> SfreqDefault]
  /\ eeg_info = [filename |-> NoneStr, filesize_mb |-> NoneNum, sfreq_hz |-> NoneNum]
  /\ band_powers = <<>>
  /\ ratios = EmptyDict
  /\ masks = <<>>

\* band_powers, sf = bandpowers_from_raw(raw); eeg_info["sfreq_hz"] = sf
BandsStep ==
  /\ stage = "input"
  /\ \E out \in {bandpowers_from_raw(raw)} :
        /\ band_powers' = out.band_powers
        /\ eeg_info' = [eeg_info EXCEPT !.sfreq_hz = out.sfreq]
  /\ masks' = BandMasks(raw.freqs)
  /\ stage' = "done"
  /\ UNCHANGED <<uploaded, sfreq_csv, phq_q1, phq_q2, ad8_answers, pressed, raw,
                 ratios, band_chart_buf, messages, results, downloads,
                 exception, earlier>>

NextBands == BandsStep

SpecBands == InitBands /\ [][NextBands]_vars

-----------------------------------------------------------------------------
(* One call of risk_from_ratios on an arbitrary BandPowers *)

\* band powers tried as inputs: the small ones, and three that bring a ratio
\* within half a thousandth of a threshold (1601/2001 and 1000/2001)
PowerSamples == (0..MaxPower) \cup {1000, 1601, 2001}

\* a BandPowers as bandpowers_from_raw returns it: one item per band, in order
BandPowersOf(theta, alpha, beta) ==
  << [band |-> BANDS[1].name, power |-> 0],
     [band |-> BANDS[2].name, power |-> theta],
     [band |-> BANDS[3].name, power |-> alpha],
     [band |-> BANDS[4].name, power |-> beta],
     [band |-> BANDS[5].name, power |-> 0] >>

InitRatios ==
  /\ stage = "input"
  /\ WidgetDefaults
  /\ NothingShown
  /\ raw = NoRaw
  /\ eeg_info = [filename |-> NoneStr, filesize_mb |-> NoneNum, sfreq_hz |-> NoneNum]
  /\ \E t \in PowerSamples, a \in PowerSamples, b \in PowerSamples :
       band_powers = BandPowersOf(t, a, b)
  /\ ratios = EmptyDict
  /\ masks = <<>>

\* ratios = risk_from_ratios(band_powers)
RatiosStep ==
  /\ stage = "input"
  /\ ratios' = risk_from_ratios(band_powers)
  /\ stage' = "done"
  /\ UNCHANGED <<uploaded, sfreq_csv, phq_q1, phq_q2, ad8_answers, pressed, raw,
                 eeg_info, band_powers, band_chart_buf, masks, messages, results,
                 downloads, exception, earlier>>

NextRatios == RatiosStep

SpecRatios == InitRatios /\ [][NextRatios]_vars

-----------------------------------------------------------------------------
(* Claims *)

\* the bins of the spectrum in raw that lie in band k by the stated policy
BinsIn(k) ==
  {i \in 1..Len(raw.freqs) : BANDS[k].lo <= raw.freqs[i] /\ raw.freqs[i] < BANDS[k].hi}

\* the trapezoids between neighbouring bins that both lie in the set I
PairIntegral(I) ==
  LET n == Len(raw.freqs)
      F[i \in 0..n] ==
        IF i <= 1 THEN 0
        ELSE F[i-1] + (IF i \in I /\ (i-1) \in I
                       THEN (raw.freqs[i] - raw.freqs[i-1])
                            * (raw.psd_mean[i-1] + raw.psd_mean[i])
                       ELSE 0)
  IN F[n]

\* the sum of the band powers of an ordered dict
SumPowers(d) ==
  LET F[k \in 0..Len(d)] == IF k = 0 THEN 0 ELSE F[k-1] + d[k].power
  IN F[Len(d)]

Max(a, b) == IF a >= b THEN a ELSE b

\* the power of band number k of the BANDS table in the dict d
PowerOf(d, k) == Get(d, BANDS[k].name, NoneNum)

\* C1: when decoding or spectral estimation of the uploaded file fails, the
\* error is shown and a run started by "Create Reports" builds no results
\* record and offers no download.
C1_FailureWithholdsReport ==
  (uploaded # NoFile /\ uploaded.outcome # "ok") =>
     /\ messages \cap {"Could not read EDF", "Could not parse CSV"} # {}
     /\ pressed => (DOMAIN results = {} /\ downloads = {})

\* C2: a bin f is taken into band (lo, hi) exactly when lo <= f < hi: each
\* band's mask marks exactly those bins and its power is the trapezoid sum over
\* exactly those bins; no bin is in two bands, and a bin at 45 Hz is in none.
C2_BandEdgePolicy ==
  stage = "done" =>
     /\ \A k \in 1..Len(BANDS) :
          /\ {i \in 1..Len(raw.freqs) : masks[k][i]} = BinsIn(k)
          /\ PowerOf(band_powers, k) = PairIntegral(BinsIn(k))
     /\ \A i \in 1..Len(raw.freqs) :
          /\ Cardinality({k \in 1..Len(BANDS) : masks[k][i]}) <= 1
          /\ raw.freqs[i] = 90 => \A k \in 1..Len(BANDS) : ~masks[k][i]

\* C2's case: a bin at the low edge of Theta (4 Hz), which is the high edge of
\* Delta, is counted in Theta alone and adds to Theta's power, with a bin at
\* 45 Hz in the spectrum
C2_Witness ==
  /\ stage = "done"
  /\ \E i \in 1..Len(raw.freqs) :
       raw.freqs[i] = 8 /\ masks[2][i] /\ ~masks[1][i] /\ raw.psd_mean[i] > 0
  /\ \E i \in 1..Len(raw.freqs) : raw.freqs[i] = 90 /\ raw.psd_mean[i] > 0
  /\ PowerOf(band_powers, 2) > 0

\* C3: a band without any bin gets the power 0 and the call does not fail; the
\* returned dict has one item per band of the table, in the table's order.
C3_EmptyBandIsZero ==
  stage = "done" =>
     /\ Len(band_powers) = Len(BANDS)
     /\ \A k \in 1..Len(BANDS) :
          /\ band_powers[k].band = BANDS[k].name
          /\ BinsIn(k) = {} => band_powers[k].power = 0

\* C3's case: a band without bins beside a band with a positive power
C3_Witness ==
  /\ stage = "done"
  /\ \E k \in 1..Len(BANDS) : BinsIn(k) = {} /\ PowerOf(band_powers, k) = 0
  /\ \E k \in 1..Len(BANDS) : PowerOf(band_powers, k) > 0

\* C4: the reported ratios are theta / max(alpha, eps) and beta / max(alpha, eps)
\* (rounded to three decimals as the function reports them), for every
\* BandPowers, alpha = 0 included.
C4_EpsilonFloor ==
  stage = "done" =>
     LET theta == PowerOf(band_powers, 2)
         alpha == PowerOf(band_powers, 3)
         beta == PowerOf(band_powers, 4)
     IN /\ ratios["Theta/Alpha"] = Round3(<<theta, Max(alpha, Eps)>>)
        /\ ratios["Beta/Alpha"] = Round3(<<beta, Max(alpha, Eps)>>)

\* C5: the depression flag is "Higher" exactly when the ratio theta_alpha the
\* function computes is > 0.8, the Alzheimer flag "Possible concern" exactly
\* when beta_alpha is < 0.5, both strictly; theta = alpha > 0 gives 1.0 and
\* "Higher", theta = 0 gives 0.0 and "Lower".
C5_Thresholds ==
  stage = "done" =>
     LET theta == PowerOf(band_powers, 2)
         alpha == PowerOf(band_powers, 3)
         beta == PowerOf(band_powers, 4)
         dep == ratios["Depression (EEG heuristic)"]
         ad == ratios["Alzheimer (EEG heuristic)"]
     IN /\ dep \in {"Higher", "Lower"}
        /\ ad \in {"Possible concern", "Normal"}
        /\ alpha > 0 => /\ dep = "Higher" <=> 10 * theta > 8 * alpha
                        /\ ad = "Possible concern" <=> 10 * beta < 5 * alpha
        /\ alpha = 0 => dep = "Lower" /\ ad = "Possible concern"
        /\ (theta = alpha /\ alpha > 0) => (ratios["Theta/Alpha"] = 1000 /\ dep = "Higher")
        /\ theta = 0 => (ratios["Theta/Alpha"] = 0 /\ dep = "Lower")

\* C5's case: both ratios exactly on their thresholds, which the strict
\* comparisons leave "Lower" and "Normal"
C5_Witness ==
  /\ stage = "done"
  /\ PowerOf(band_powers, 3) > 0
  /\ 10 * PowerOf(band_powers, 2) = 8 * PowerOf(band_powers, 3)
  /\ 10 * PowerOf(band_powers, 4) = 5 * PowerOf(band_powers, 3)
  /\ ratios["Depression (EEG heuristic)"] = "Lower"
  /\ ratios["Alzheimer (EEG heuristic)"] = "Normal"

\* the tier of a composite index: < 40 Low, 40 <= c < 70 Moderate, >= 70 High
TierOf(c) == IF c < 40 THEN "Low" ELSE IF c < 70 THEN "Moderate" ELSE "High"

\* C6: every results record carries a fused composite index in [0,100] and the
\* tier label that belongs to it.
C6_CompositeInRecord ==
  DOMAIN results # {} =>
     /\ {"composite", "tier"} \subseteq DOMAIN results
     /\ results["composite"] \in 0..100
     /\ results["tier"] = TierOf(results["composite"])

\* C7: on a non-negative spectrum over ascending bins every band power is >= 0
\* and the five band powers together do not exceed the trapezoid integral of
\* the whole spectrum.
C7_BandsWithinTotal ==
  stage = "done" =>
     /\ \A k \in 1..Len(band_powers) : band_powers[k].power >= 0
     /\ SumPowers(band_powers) <= Trapz(raw.psd_mean, raw.freqs)

\* C7's case: two bands with positive power, and power between the bands that
\* no band counts
C7_Witness ==
  /\ stage = "done"
  /\ Cardinality({k \in 1..Len(band_powers) : band_powers[k].power > 0}) >= 2
  /\ SumPowers(band_powers) < Trapz(raw.psd_mean, raw.freqs)

\* C8: a run on the same upload with the same CSV rate as an earlier run has
\* the same band powers and the same ratios as that run, whatever runs came
\* in between.
C8_SameInputSameOutput ==
  (earlier.taken /\ earlier.uploaded = uploaded /\ earlier.sfreq_csv = sfreq_csv) =>
     /\ earlier.band_powers = band_powers
     /\ earlier.ratios = ratios

\* C8's case: a decodable file processed again after a run on another upload
C8_Witness ==
  /\ earlier.taken
  /\ earlier.between
  /\ earlier.uploaded = uploaded
  /\ earlier.sfreq_csv = sfreq_csv
  /\ uploaded # NoFile
  /\ Len(band_powers) > 0

\* C9: with no file uploaded "Create Reports" only warns: no results record,
\* no download; a results record or a download exists only in a run with a
\* file uploaded and the button pressed.
C9_NoUploadNoReport ==
  /\ (pressed /\ uploaded = NoFile) =>
        /\ messages = {"Please upload an EEG file first."}
        /\ DOMAIN results = {}
        /\ downloads = {}
  /\ (DOMAIN results # {} \/ downloads # {}) => (pressed /\ uploaded # NoFile)

\* C9's case: the button pressed with no upload and some answers given
C9_Witness ==
  /\ pressed
  /\ uploaded = NoFile
  /\ phq_score(phq_q1, phq_q2) >= 3
  /\ ad8_score(ad8_answers) >= 2
  /\ messages = {"Please upload an EEG file first."}

\* C10 as claimed: each flag agrees with the reported, rounded ratio: "Higher"
\* exactly when the reported Theta/Alpha is > 0.8, "Possible concern" exactly
\* when the reported Beta/Alpha is < 0.5.
C10_FlagsMatchReported ==
  stage = "done" =>
     /\ ratios["Depression (EEG heuristic)"] = "Higher" <=> ratios["Theta/Alpha"] > 800
     /\ ratios["Alzheimer (EEG heuristic)"] = "Possible concern" <=> ratios["Beta/Alpha"] < 500

\* C10 amended: the flags are taken from the unrounded ratios, so a reported
\* Theta/Alpha > 0.8 implies "Higher" and "Higher" implies a reported value
\* >= 0.8; a reported Beta/Alpha < 0.5 implies "Possible concern" and
\* "Possible concern" implies a reported value <= 0.5.
C10_FlagsWithinRounding ==
  stage = "done" =>
     /\ ratios["Theta/Alpha"] > 800 => ratios["Depression (EEG heuristic)"] = "Higher"
     /\ ratios["Depression (EEG heuristic)"] = "Higher" => ratios["Theta/Alpha"] >= 800
     /\ ratios["Beta/Alpha"] < 500 => ratios["Alzheimer (EEG heuristic)"] = "Possible concern"
     /\ ratios["Alzheimer (EEG heuristic)"] = "Possible concern" => ratios["Beta/Alpha"] <= 500

\* C10's case: both flags raised while the reported ratios sit on the thresholds
C10_Witness ==
  /\ stage = "done"
  /\ ratios["Depression (EEG heuristic)"] = "Higher"
  /\ ratios["Theta/Alpha"] = 800
  /\ ratios["Alzheimer (EEG heuristic)"] = "Possible concern"
  /\ ratios["Beta/Alpha"] = 500

====
